---- MODULE Spec2Model ----
(***************************************************************************)
(* Document ingestion (DocumentProcessor.processFile / processCSV /        *)
(* processPDF / chunkText), lexical retrieval                              *)
(* (DocumentProcessor.findRelevantChunks) and the knowledge-base state of  *)
(* the App component (handleFileUpload, clearKnowledgeBase,                *)
(* handleSendMessage).                                                     *)
(*                                                                         *)
(* A JavaScript string is modelled as a sequence of one-character strings, *)
(* so that substring, split, trim and toLowerCase are computed and not     *)
(* assumed.                                                                *)
(***************************************************************************)
EXTENDS Integers, Sequences, FiniteSets, TLC

VARIABLES
    knowledgeBase,   \* App state: [chunks, fileNames]
    isProcessing,    \* App state: upload in progress (disables the file input)
    isLoading,       \* App state: a message is awaiting its answer
    relevantChunks,  \* handleSendMessage: positions of the chunks handed to generateResponse
    pc,              \* handleFileUpload: "idle" or "loop" (suspended at an await / between files)
    files,           \* handleFileUpload: e.target.files of the running handler
    fi,              \* handleFileUpload: loop variable i (0-based)
    allNewChunks,    \* handleFileUpload: local allNewChunks
    newFileNames,    \* handleFileUpload: local newFileNames
    closureNames,    \* handleFileUpload: knowledgeBase.fileNames captured by the handler's closure
    alerts,          \* number of alert("Error processing files...") raised by the last batch (0 or 1)
    ctText,          \* chunkText harness: argument text
    ctOut,           \* chunkText harness: returned chunks
    ctDone,          \* chunkText harness: call has returned
    csvText,         \* processCSV harness: file.text()
    csvOut,          \* processCSV harness: result [ok, chunks]
    csvDone,         \* processCSV harness: call has returned
    rQuery,          \* findRelevantChunks harness: query
    rChunks,         \* findRelevantChunks harness: chunks
    rLimit,          \* findRelevantChunks harness: limit
    rOut,            \* findRelevantChunks harness: returned positions into rChunks
    rDone            \* findRelevantChunks harness: call has returned

appVars == <<knowledgeBase, isProcessing, isLoading, relevantChunks, pc, files, fi,
             allNewChunks, newFileNames, closureNames, alerts>>
ctVars == <<ctText, ctOut, ctDone>>
csvVars == <<csvText, csvOut, csvDone>>
rVars == <<rQuery, rChunks, rLimit, rOut, rDone>>
vars == <<appVars, ctVars, csvVars, rVars>>

(***************************************************************************)
(* Strings                                                                 *)
(***************************************************************************)
Min(a, b) == IF a < b THEN a ELSE b

Rep(c, n) == [k \in 1..n |-> c]

\* s repeated cyclically up to length n
Cycle(s, n) == [k \in 1..n |-> s[((k - 1) % Len(s)) + 1]]

UpperChars == <<"A","B","C","D","E","F","G","H","I","J","K","L","M",
                "N","O","P","Q","R","S","T","U","V","W","X","Y","Z">>
LowerChars == <<"a","b","c","d","e","f","g","h","i","j","k","l","m",
                "n","o","p","q","r","s","t","u","v","w","x","y","z">>
DigitChars == <<"0","1","2","3","4","5","6","7","8","9">>

Range(s) == {s[k] : k \in DOMAIN s}

\* String.prototype.toLowerCase
LowerChar(c) ==
    IF c \in Range(UpperChars)
    THEN LowerChars[CHOOSE k \in DOMAIN UpperChars : UpperChars[k] = c]
    ELSE c
toLowerCase(s) == [k \in DOMAIN s |-> LowerChar(s[k])]

\* white space removed by String.prototype.trim
IsSpace(c) == c \in {" ", "\t", "\n", "\r", "\f"}

\* \w of a JavaScript regular expression
IsWord(c) == c \in Range(UpperChars) \cup Range(LowerChars) \cup Range(DigitChars) \cup {"_"}

\* String.prototype.trim
trim(s) ==
    IF \A k \in DOMAIN s : IsSpace(s[k]) THEN <<>>
    ELSE LET a == CHOOSE k \in DOMAIN s :
                     /\ ~IsSpace(s[k])
                     /\ \A j \in 1..(k - 1) : IsSpace(s[j])
             b == CHOOSE k \in DOMAIN s :
                     /\ ~IsSpace(s[k])
                     /\ \A j \in (k + 1)..Len(s) : IsSpace(s[j])
         IN SubSeq(s, a, b)

\* String.prototype.includes
includes(hay, needle) ==
    \E p \in 0..(Len(hay) - Len(needle)) : SubSeq(hay, p + 1, p + Len(needle)) = needle

\* String.prototype.substring(from, to) for 0 <= from <= to
substring(s, from, to) == SubSeq(s, from + 1, Min(to, Len(s)))

\* String.prototype.split(sep) for a one-character separator: the pieces between
\* the separators, in order.  The text is cut at a separator near its middle and
\* the pieces of the two parts are concatenated, which keeps the evaluation shallow.
RECURSIVE splitChar(_, _)
splitChar(s, sep) ==
    IF \A k \in DOMAIN s : s[k] # sep THEN <<s>>
    ELSE LET mid == (Len(s) + 1) \div 2
             p == IF \E k \in mid..Len(s) : s[k] = sep
                  THEN CHOOSE k \in mid..Len(s) :
                           s[k] = sep /\ \A j \in mid..(k - 1) : s[j] # sep
                  ELSE CHOOSE k \in 1..(mid - 1) :
                           s[k] = sep /\ \A j \in (k + 1)..(mid - 1) : s[j] # sep
         IN splitChar(SubSeq(s, 1, p - 1), sep) \o splitChar(SubSeq(s, p + 1, Len(s)), sep)

\* Array.prototype.join
RECURSIVE join(_, _)
join(parts, sep) ==
    IF parts = <<>> THEN <<>>
    ELSE IF Len(parts) = 1 THEN parts[1]
    ELSE LET h == Len(parts) \div 2
         IN join(SubSeq(parts, 1, h), sep) \o sep \o join(SubSeq(parts, h + 1, Len(parts)), sep)

\* Array.prototype.slice(from, to) for 0 <= from <= to
slice(a, from, to) == SubSeq(a, from + 1, Min(to, Len(a)))

\* decimal rendering of a natural number inside a template literal
RECURSIVE NumStr(_)
NumStr(n) == IF n < 10 THEN <<DigitChars[n + 1]>>
             ELSE NumStr(n \div 10) \o <<DigitChars[(n % 10) + 1]>>

\* rendering of the value undefined inside a template literal
Undefined == <<"u","n","d","e","f","i","n","e","d">>

(***************************************************************************)
(* DocumentProcessor.chunkText                                             *)
(***************************************************************************)
CHUNK_SIZE == 4000

RECURSIVE chunkTextLoop(_, _, _, _)
chunkTextLoop(text, fileName, i, chunks) ==
    IF i < Len(text)
    THEN chunkTextLoop(text, fileName, i + CHUNK_SIZE,
                       Append(chunks, [fileName |-> fileName,
                                       content  |-> substring(text, i, i + CHUNK_SIZE),
                                       index    |-> Len(chunks)]))
    ELSE chunks

\* chunkText as it would be if each slice stopped one character early
chunkTextShortSlice(text, fileName) ==
    [c \in 1..((Len(text) + CHUNK_SIZE - 1) \div CHUNK_SIZE) |->
        [fileName |-> fileName,
         content  |-> substring(text, (c - 1) * CHUNK_SIZE, c * CHUNK_SIZE - 1),
         index    |-> c - 1]]

\* chunkText as it would be if the loop ran while i <= text.length
chunkTextExtraPass(text, fileName) ==
    [c \in 1..((Len(text) \div CHUNK_SIZE) + 1) |->
        [fileName |-> fileName,
         content  |-> substring(text, (c - 1) * CHUNK_SIZE, c * CHUNK_SIZE),
         index    |-> c - 1]]

chunkText(text, fileName) == chunkTextLoop(text, fileName, 0, <<>>)

(***************************************************************************)
(* DocumentProcessor.processCSV                                            *)
(* The result is [ok, chunks]; ok = FALSE stands for a thrown exception.   *)
(***************************************************************************)
ROWS_PER_CHUNK == 30

Thrown == [ok |-> FALSE, chunks |-> <<>>]
Returned(chunks) == [ok |-> TRUE, chunks |-> chunks]

\* `${h.trim()}: ${values[idx]?.trim()}`
csvField(h, values, idx) ==
    trim(h) \o <<":", " ">> \o (IF idx <= Len(values) THEN trim(values[idx]) ELSE Undefined)

\* headers.map((h, idx) => ...).join(' | ') for one data row
csvRow(headers, row) ==
    LET values == splitChar(row, ",")
    IN join([idx \in DOMAIN headers |-> csvField(headers[idx], values, idx)],
            <<" ", "|", " ">>)

\* `[CSV Header: ${headers.join(', ')}]\n${formattedContent}`
csvContent(headers, chunkRows) ==
    <<"[","C","S","V"," ","H","e","a","d","e","r",":"," ">>
        \o join(headers, <<",", " ">>) \o <<"]", "\n">>
        \o join([r \in DOMAIN chunkRows |-> csvRow(headers, chunkRows[r])], <<"\n">>)

RECURSIVE processCSVLoop(_, _, _, _, _)
processCSVLoop(headers, dataRows, fileName, i, chunks) ==
    IF i < Len(dataRows)
    THEN processCSVLoop(headers, dataRows, fileName, i + ROWS_PER_CHUNK,
                        Append(chunks,
                               [fileName |-> fileName,
                                content  |-> csvContent(headers,
                                                        slice(dataRows, i, i + ROWS_PER_CHUNK)),
                                index    |-> Len(chunks)]))
    ELSE chunks

csvNonEmpty(row) == Len(row) > 0

\* csvRows as it would be without the filter of empty rows
csvRowsKeepBlank(text) ==
    LET lines == splitChar(text, "\n")
    IN [k \in DOMAIN lines |-> trim(lines[k])]

\* text.split('\n').map(row => row.trim()).filter(row => row.length > 0)
csvRows(text) ==
    LET lines == splitChar(text, "\n")
    IN SelectSeq([k \in DOMAIN lines |-> trim(lines[k])], csvNonEmpty)

processCSV(text, fileName) ==
    LET rows == csvRows(text)
    IN IF rows = <<>> THEN Thrown    \* rows[0] is undefined: rows[0].split throws
       ELSE Returned(processCSVLoop(splitChar(rows[1], ","), Tail(rows), fileName, 0, <<>>))

(***************************************************************************)
(* DocumentProcessor.processPDF and processFile                            *)
(* A file is [name, text, pages, loads]: text is file.text(); pages is     *)
(* what PDF.js extracts, one sequence of text items per page; loads tells  *)
(* whether PDF.js is present and can open the file.                        *)
(***************************************************************************)
\* fullText += `--- Page ${i} ---\n${pageText}\n\n`
RECURSIVE pdfFullText(_, _)
pdfFullText(pages, i) ==
    IF i > Len(pages) THEN <<>>
    ELSE <<"-","-","-"," ","P","a","g","e"," ">> \o NumStr(i) \o <<" ","-","-","-","\n">>
            \o join(pages[i], <<" ">>) \o <<"\n", "\n">>
            \o pdfFullText(pages, i + 1)

processPDF(file) ==
    IF ~file.loads THEN Thrown
    ELSE Returned(chunkText(pdfFullText(file.pages, 1), file.name))

\* file.name.split('.').pop()?.toLowerCase()
extension(name) ==
    LET parts == splitChar(name, ".")
    IN toLowerCase(parts[Len(parts)])

processFile(file) ==
    IF extension(file.name) = <<"p","d","f">> THEN processPDF(file)
    ELSE IF extension(file.name) = <<"c","s","v">> THEN processCSV(file.text, file.name)
    ELSE Thrown

(***************************************************************************)
(* DocumentProcessor.findRelevantChunks                                    *)
(* The returned array holds references to the elements of chunks: it is    *)
(* modelled as the sequence of their positions (1-based) in chunks.        *)
(***************************************************************************)
DEFAULT_LIMIT == 30
SMALL_DATASET == 50
PHRASE_BONUS == 10
FALLBACK_AGG == 20
FALLBACK_NORMAL == 5

\* String.prototype.split(/\W+/)
RECURSIVE splitNonWord(_)
splitNonWord(s) ==
    IF \A k \in DOMAIN s : IsWord(s[k]) THEN <<s>>
    ELSE LET p == CHOOSE k \in DOMAIN s : ~IsWord(s[k]) /\ \A j \in 1..(k - 1) : IsWord(s[j])
             q == CHOOSE k \in p..Len(s) :
                     /\ \A j \in p..k : ~IsWord(s[j])
                     /\ (k = Len(s) \/ IsWord(s[k + 1]))
         IN <<SubSeq(s, 1, p - 1)>> \o splitNonWord(SubSeq(s, q + 1, Len(s)))

longTerm(t) == Len(t) > 2

\* query.toLowerCase().split(/\W+/).filter(t => t.length > 2)
queryTerms(query) == SelectSeq(splitNonWord(toLowerCase(query)), longTerm)

AggregationTerms ==
    << <<"t","o","t","a","l">>, <<"c","o","u","n","t">>, <<"s","u","m">>,
       <<"a","v","e","r","a","g","e">>, <<"s","u","m","m","a","r","y">>,
       <<"r","e","p","o","r","t">>, <<"a","n","a","l","y","z","e">>,
       <<"o","v","e","r","v","i","e","w">>, <<"a","l","l">> >>

isAggregation(query) ==
    \E k \in DOMAIN AggregationTerms : includes(toLowerCase(query), AggregationTerms[k])

\* queryTerms.forEach(term => { if (contentLower.includes(term)) score += 1 })
RECURSIVE termScore(_, _)
termScore(contentLower, terms) ==
    IF terms = <<>> THEN 0
    ELSE (IF includes(contentLower, terms[1]) THEN 1 ELSE 0)
            + termScore(contentLower, Tail(terms))

\* the score as it would be without the exact-phrase bonus
chunkScoreTermsOnly(query, chunk) ==
    termScore(toLowerCase(chunk.content), queryTerms(query))

chunkScore(query, chunk) ==
    LET contentLower == toLowerCase(chunk.content)
    IN (IF includes(contentLower, toLowerCase(query)) THEN PHRASE_BONUS ELSE 0)
          + termScore(contentLower, queryTerms(query))

\* comparator (a, b) => b.score - a.score: negative when a goes first
compareScore(a, b) == b.score - a.score

\* a sort that orders by the comparator but reverses elements it calls equal
sortByScoreUnstable(items) ==
    LET before(x, y) == \/ compareScore(items[x], items[y]) < 0
                        \/ compareScore(items[x], items[y]) = 0 /\ x > y
        rank(x) == Cardinality({y \in DOMAIN items : before(y, x)}) + 1
    IN [r \in DOMAIN items |-> items[CHOOSE x \in DOMAIN items : rank(x) = r]]

\* Array.prototype.sort with the comparator above.  The sort is stable (ECMAScript
\* 2019): x goes before y when the comparator puts it first, or calls them equal
\* and x stood before y.
sortByScore(items) ==
    LET before(x, y) == \/ compareScore(items[x], items[y]) < 0
                        \/ compareScore(items[x], items[y]) = 0 /\ x < y
        rank(x) == Cardinality({y \in DOMAIN items : before(y, x)}) + 1
    IN [r \in DOMAIN items |-> items[CHOOSE x \in DOMAIN items : rank(x) = r]]

positiveScore(item) == item.score > 0

\* the short-circuit test as it would be with the threshold one lower
returnsEverythingBelow49(query, chunks) == isAggregation(query) /\ Len(chunks) < SMALL_DATASET - 1

\* if (isAggregation && chunks.length < 50)
returnsEverything(query, chunks) == isAggregation(query) /\ Len(chunks) < SMALL_DATASET

\* the slice bound as it would be if every query got the wider net
resultLimitAlwaysDouble(query, limit) == limit * 2

\* isAggregation ? limit * 2 : limit
resultLimit(query, limit) == IF isAggregation(query) THEN limit * 2 ELSE limit

\* the fallback size as it would be without the larger size for aggregations
fallbackLimitAlwaysSmall(query) == FALLBACK_NORMAL

\* const fallbackLimit = isAggregation ? 20 : 5
fallbackLimit(query) == IF isAggregation(query) THEN FALLBACK_AGG ELSE FALLBACK_NORMAL

findRelevantChunks(query, chunks, limit) ==
    IF returnsEverything(query, chunks)
    THEN [k \in DOMAIN chunks |-> k]
    ELSE LET scoredChunks == [k \in DOMAIN chunks |->
                                 [chunk |-> k, score |-> chunkScore(query, chunks[k])]]
             ranked == sortByScore(SelectSeq(scoredChunks, positiveScore))
             cut == slice(ranked, 0, resultLimit(query, limit))
             relevant == [k \in DOMAIN cut |-> cut[k].chunk]
         IN IF Len(relevant) = 0 /\ Len(chunks) > 0
            THEN [k \in 1..Min(fallbackLimit(query), Len(chunks)) |-> k]
            ELSE relevant

(***************************************************************************)
(* App: the files a user can pick                                          *)
(***************************************************************************)
MaxBatch == 2

CsvHeader == <<"i","d",","," ","n","a","m","e">>

\* data row r of the sample table: "r,x"
CsvDataRow(r) == NumStr(r) \o <<",","x">>

\* a table of h data rows, one line per row, '\n' after every line
CsvTable(header, h) ==
    header \o <<"\n">> \o join([r \in 1..h |-> CsvDataRow(r)], <<"\n">>) \o <<"\n">>

NoPages == <<>>

Files ==
    << [name |-> <<"a",".","c","s","v">>, text |-> CsvTable(CsvHeader, ROWS_PER_CHUNK + 1),
        pages |-> NoPages, loads |-> FALSE],
       \* another file of the same name, picked from another folder
       [name |-> <<"a",".","c","s","v">>, text |-> CsvTable(CsvHeader, 1),
        pages |-> NoPages, loads |-> FALSE],
       [name |-> <<"b",".","P","D","F">>, text |-> <<>>,
        pages |-> << <<<<"T","o","t","a","l">>, <<"r","e","v","e","n","u","e">>>>, <<<<"a","p","p","l","e">>>> >>,
        loads |-> TRUE],
       \* not a PDF or CSV: processFile throws
       [name |-> <<"c",".","t","x","t">>, text |-> <<"a","p","p","l","e">>, pages |-> NoPages, loads |-> FALSE],
       \* a PDF that PDF.js cannot open: processPDF throws
       [name |-> <<"d",".","p","d","f">>, text |-> <<>>, pages |-> NoPages, loads |-> FALSE] >>

FileIds == DOMAIN Files

\* what await DocumentProcessor.processFile(file) yields for each file
FileResults == [id \in FileIds |-> processFile(Files[id])]

\* e.target.files: distinct File objects, in the order picked
Batches ==
    {b \in UNION {[1..n -> FileIds] : n \in 1..MaxBatch} :
        \A x, y \in DOMAIN b : x # y => b[x] # b[y]}

\* texts typed into the message box
Queries ==
    { <<"a","p","p","l","e">>, <<"t","o","t","a","l"," ","r","e","v","e","n","u","e">>, <<"s","u","m","m","a","r","y">>, <<" "," ">>, <<"x">> }

EmptyKnowledgeBase == [chunks |-> <<>>, fileNames |-> <<>>]

(***************************************************************************)
(* App: handleFileUpload, clearKnowledgeBase, handleSendMessage            *)
(***************************************************************************)
\* handleFileUpload up to its first await: the input is disabled while isProcessing
handleFileUpload(batch) ==
    /\ pc = "idle"
    /\ ~isProcessing
    /\ Len(batch) > 0
    /\ isProcessing' = TRUE
    /\ files' = batch
    /\ fi' = 0
    /\ allNewChunks' = <<>>
    /\ newFileNames' = <<>>
    /\ closureNames' = knowledgeBase.fileNames
    /\ alerts' = 0
    /\ pc' = "loop"
    /\ UNCHANGED <<knowledgeBase, isLoading, relevantChunks>>

\* uploadFile as it would be if the catch branch committed what the loop had collected
uploadFileKeepsPartial ==
    /\ pc = "loop"
    /\ fi < Len(files)
    /\ LET file == Files[files[fi + 1]]
           result == FileResults[files[fi + 1]]
       IN IF file.name \in Range(closureNames)
          THEN /\ fi' = fi + 1
               /\ UNCHANGED <<allNewChunks, newFileNames, alerts, isProcessing, pc,
                              files, closureNames, knowledgeBase>>
          ELSE IF result.ok
          THEN /\ allNewChunks' = allNewChunks \o result.chunks
               /\ newFileNames' = Append(newFileNames, file.name)
               /\ fi' = fi + 1
               /\ UNCHANGED <<alerts, isProcessing, pc, files, closureNames, knowledgeBase>>
          ELSE /\ alerts' = 1
               /\ isProcessing' = FALSE
               /\ pc' = "idle"
               /\ files' = <<>>
               /\ fi' = 0
               /\ closureNames' = <<>>
               /\ knowledgeBase' = [chunks    |-> knowledgeBase.chunks \o allNewChunks,
                                    fileNames |-> knowledgeBase.fileNames \o newFileNames]
               /\ UNCHANGED <<allNewChunks, newFileNames>>
    /\ UNCHANGED <<isLoading, relevantChunks>>

\* one iteration of the for loop: skip a known name, or await processFile(file);
\* a throw leaves the loop through catch (alert) and finally (e.target.value = '');
\* allNewChunks and newFileNames keep what the failed handler had collected and dropped
uploadFile ==
    /\ pc = "loop"
    /\ fi < Len(files)
    /\ LET file == Files[files[fi + 1]]
           result == FileResults[files[fi + 1]]
       IN IF file.name \in Range(closureNames)
          THEN /\ fi' = fi + 1
               /\ UNCHANGED <<allNewChunks, newFileNames, alerts, isProcessing, pc,
                              files, closureNames>>
          ELSE IF result.ok
          THEN /\ allNewChunks' = allNewChunks \o result.chunks
               /\ newFileNames' = Append(newFileNames, file.name)
               /\ fi' = fi + 1
               /\ UNCHANGED <<alerts, isProcessing, pc, files, closureNames>>
          ELSE /\ alerts' = 1
               /\ isProcessing' = FALSE
               /\ pc' = "idle"
               /\ files' = <<>>
               /\ fi' = 0
               /\ closureNames' = <<>>
               /\ UNCHANGED <<allNewChunks, newFileNames>>
    /\ UNCHANGED <<knowledgeBase, isLoading, relevantChunks>>

\* after the loop: setKnowledgeBase(prev => ...), then finally (e.target.value = '')
uploadCommit ==
    /\ pc = "loop"
    /\ fi = Len(files)
    /\ knowledgeBase' = [chunks    |-> knowledgeBase.chunks \o allNewChunks,
                         fileNames |-> knowledgeBase.fileNames \o newFileNames]
    /\ isProcessing' = FALSE
    /\ pc' = "idle"
    /\ files' = <<>>
    /\ fi' = 0
    /\ allNewChunks' = <<>>
    /\ newFileNames' = <<>>
    /\ closureNames' = <<>>
    /\ UNCHANGED <<alerts, isLoading, relevantChunks>>

\* clearKnowledgeBase as it would be if it reset the chunks and kept the names
clearChunksOnly ==
    /\ Len(knowledgeBase.fileNames) > 0
    /\ knowledgeBase' = [chunks |-> <<>>, fileNames |-> knowledgeBase.fileNames]
    /\ UNCHANGED <<isProcessing, isLoading, relevantChunks, pc, files, fi,
                   allNewChunks, newFileNames, closureNames, alerts>>

\* the button is rendered only while fileNames is not empty
clearKnowledgeBase ==
    /\ Len(knowledgeBase.fileNames) > 0
    /\ knowledgeBase' = EmptyKnowledgeBase
    /\ UNCHANGED <<isProcessing, isLoading, relevantChunks, pc, files, fi,
                   allNewChunks, newFileNames, closureNames, alerts>>

\* handleSendMessage up to its await of generateResponse
handleSendMessage(inputText) ==
    /\ Len(trim(inputText)) > 0
    /\ ~isLoading
    /\ relevantChunks' = findRelevantChunks(inputText, knowledgeBase.chunks, DEFAULT_LIMIT)
    /\ isLoading' = TRUE
    /\ UNCHANGED <<knowledgeBase, isProcessing, pc, files, fi,
                   allNewChunks, newFileNames, closureNames, alerts>>

\* generateResponse resolves or rejects: finally setIsLoading(false)
receiveResponse ==
    /\ isLoading
    /\ isLoading' = FALSE
    /\ relevantChunks' = <<>>
    /\ UNCHANGED <<knowledgeBase, isProcessing, pc, files, fi,
                   allNewChunks, newFileNames, closureNames, alerts>>

InitApp ==
    /\ knowledgeBase = EmptyKnowledgeBase
    /\ isProcessing = FALSE
    /\ isLoading = FALSE
    /\ relevantChunks = <<>>
    /\ pc = "idle"
    /\ files = <<>>
    /\ fi = 0
    /\ allNewChunks = <<>>
    /\ newFileNames = <<>>
    /\ closureNames = <<>>
    /\ alerts = 0

\* the harness variables of the pure functions, at rest
IdleChunkText == ctText = <<>> /\ ctOut = <<>> /\ ctDone = FALSE
IdleCSV == csvText = <<>> /\ csvOut = Thrown /\ csvDone = FALSE
IdleRetrieval == rQuery = <<>> /\ rChunks = <<>> /\ rLimit = DEFAULT_LIMIT /\ rOut = <<>> /\ rDone = FALSE

Init == InitApp /\ IdleChunkText /\ IdleCSV /\ IdleRetrieval

Next ==
    \/ \E batch \in Batches : handleFileUpload(batch) /\ UNCHANGED <<ctVars, csvVars, rVars>>
    \/ uploadFile /\ UNCHANGED <<ctVars, csvVars, rVars>>
    \/ uploadCommit /\ UNCHANGED <<ctVars, csvVars, rVars>>
    \/ clearKnowledgeBase /\ UNCHANGED <<ctVars, csvVars, rVars>>
    \/ \E inputText \in Queries : handleSendMessage(inputText) /\ UNCHANGED <<ctVars, csvVars, rVars>>
    \/ receiveResponse /\ UNCHANGED <<ctVars, csvVars, rVars>>

Spec == Init /\ [][Next]_vars

(***************************************************************************)
(* chunkText on its own: the text is drawn in the initial state, one call  *)
(***************************************************************************)
MaxTextChunks == 2

\* lengths around every multiple of CHUNK_SIZE up to MaxTextChunks chunks
TextLengths ==
    {n \in {k * CHUNK_SIZE + d : k \in 0..MaxTextChunks, d \in (-1)..2} : n >= 0}

TextPatterns ==
    { <<"a">>, <<" ">>, <<"\n">>, <<"a","b"," ","c","\n">>, <<"x","Y","z">>, <<" ","\t","\r","\n">>, <<"a","p","p","l","e"," ","b","a","n","a","n","a"," ">> }

SampleName == <<"d","o","c",".","p","d","f">>

InitChunkText ==
    /\ \E n \in TextLengths : \E pat \in TextPatterns : ctText = Cycle(pat, n)
    /\ ctOut = <<>>
    /\ ctDone = FALSE

callChunkText ==
    /\ ~ctDone
    /\ ctOut' = chunkText(ctText, SampleName)
    /\ ctDone' = TRUE
    /\ UNCHANGED ctText

StartChunkText == InitApp /\ InitChunkText /\ IdleCSV /\ IdleRetrieval

NextChunkText == callChunkText /\ UNCHANGED <<appVars, csvVars, rVars>>

SpecChunkText == StartChunkText /\ [][NextChunkText]_vars

(***************************************************************************)
(* processCSV on its own                                                   *)
(***************************************************************************)
MaxCsvChunks == 2

\* numbers of data rows around every multiple of ROWS_PER_CHUNK
CsvRowCounts ==
    {n \in {k * ROWS_PER_CHUNK + d : k \in 0..MaxCsvChunks, d \in (-1)..1} : n >= 0}

CsvHeaders == { CsvHeader, <<" ","i","d"," ",",","n","a","m","e",",","q","t","y">> }

\* data row r, with every field or with the first field only
CsvSampleRow(r, short) == IF short THEN NumStr(r) ELSE CsvDataRow(r)

\* what stands between two lines: a line break alone, or with blank and white lines
CsvBreaks == { <<"\n">>, <<"\r","\n">>, <<"\n","\n">>, <<"\n"," "," ","\t","\n">> }

CsvInput(header, h, short, brk) ==
    join(<<header>> \o [r \in 1..h |-> CsvSampleRow(r, short)], brk)

CsvInputs ==
    {CsvInput(header, h, short, brk) :
        header \in CsvHeaders, h \in CsvRowCounts, short \in BOOLEAN, brk \in CsvBreaks}
    \cup {CsvInput(header, h, FALSE, <<"\n">>) \o <<"\n">> : header \in CsvHeaders, h \in CsvRowCounts}
    \cup { <<>>, <<" ","\n">> }

InitCSV ==
    /\ csvText \in CsvInputs
    /\ csvOut = Thrown
    /\ csvDone = FALSE

callProcessCSV ==
    /\ ~csvDone
    /\ csvOut' = processCSV(csvText, SampleName)
    /\ csvDone' = TRUE
    /\ UNCHANGED csvText

StartCSV == InitApp /\ IdleChunkText /\ InitCSV /\ IdleRetrieval

NextCSV == callProcessCSV /\ UNCHANGED <<appVars, ctVars, rVars>>

SpecCSV == StartCSV /\ [][NextCSV]_vars

(***************************************************************************)
(* findRelevantChunks on its own                                           *)
(***************************************************************************)
MaxExtraChunks == 1

\* knowledge-base sizes: small ones and those around the small-dataset threshold
ChunkCounts == {0, 1, 3, 10} \cup ((SMALL_DATASET - 1)..(SMALL_DATASET + MaxExtraChunks))

\* chunk contents, repeated cyclically to fill a knowledge base
ContentCycles ==
    { << <<"a","p","p","l","e"," ","b","a","n","a","n","a">>,
       <<"b","a","n","a","n","a"," ","c","h","e","r","r","y">>,
       <<"a","p","p","l","e"," ","a","p","p","l","e"," ","c","h","e","r","r","y">> >>,
      << <<"T","o","t","a","l"," ","R","e","v","e","n","u","e"," ","2","0","2","4">>,
       <<"a","p","p","l","e"," ","p","i","e">>,
       <<"A","P","P","L","E">>,
       <<"n","o"," ","m","a","t","c","h"," ","h","e","r","e">>,
       <<"A","n"," ","a","p","p","l","e",","," ","a"," ","b","a","n","a","n","a">> >>,
      << <<"x"," ","y">>,
       <<"z","z","z">> >> }

SampleChunks(contents, n) ==
    [k \in 1..n |-> [fileName |-> SampleName,
                     content  |-> contents[((k - 1) % Len(contents)) + 1],
                     index    |-> k - 1]]

RetrievalQueries ==
    { <<"a","p","p","l","e">>,
      <<"r","e","v","e","n","u","e">>,
      <<"g","i","v","e"," ","m","e"," ","a"," ","s","u","m","m","a","r","y"," ","o","f"," ","e","v","e","r","y","t","h","i","n","g">>,
      <<"A","p","p","l","e"," ","B","a","n","a","n","a">>,
      <<"a","p","p","l","e"," ","a","p","p","l","e">>,
      <<"b","a","n","a","n","a",","," ","a","p","p","l","e","?">>,
      <<"T","o","t","a","l"," ","a","p","p","l","e">>,
      <<"c","a","l","l">>,
      <<>>,
      <<"a","n">>,
      <<"z","z","z"," ","x">> }

RetrievalLimits == {1, 2, DEFAULT_LIMIT}

InitRetrieval ==
    /\ rQuery \in RetrievalQueries
    /\ \E contents \in ContentCycles : \E n \in ChunkCounts : rChunks = SampleChunks(contents, n)
    /\ rLimit \in RetrievalLimits
    /\ rOut = <<>>
    /\ rDone = FALSE

callFindRelevantChunks ==
    /\ ~rDone
    /\ rOut' = findRelevantChunks(rQuery, rChunks, rLimit)
    /\ rDone' = TRUE
    /\ UNCHANGED <<rQuery, rChunks, rLimit>>

StartRetrieval == InitApp /\ IdleChunkText /\ IdleCSV /\ InitRetrieval

NextRetrieval == callFindRelevantChunks /\ UNCHANGED <<appVars, ctVars, csvVars>>

SpecRetrieval == StartRetrieval /\ [][NextRetrieval]_vars

(***************************************************************************)
(* Properties of the knowledge base (specification Spec)                   *)
(***************************************************************************)
IsPrefix(a, b) == Len(a) <= Len(b) /\ SubSeq(b, 1, Len(a)) = a

\* positions of the chunks of the knowledge base that carry a name
ChunksOf(name) == {k \in DOMAIN knowledgeBase.chunks : knowledgeBase.chunks[k].fileName = name}

\* C1: in every reachable knowledge base, the index values of the chunks carrying
\* one source name are exactly 0..n-1, with no gap and no duplicate.
C1_ContiguousPerSource ==
    \A k \in DOMAIN knowledgeBase.chunks :
        LET own == ChunksOf(knowledgeBase.chunks[k].fileName)
        IN /\ {knowledgeBase.chunks[j].index : j \in own} = 0..(Cardinality(own) - 1)
           /\ \A i, j \in own : i # j => knowledgeBase.chunks[i].index # knowledgeBase.chunks[j].index

\* the step that ends a running upload handler (commit, or catch after a throw)
UploadEnds == pc = "loop" /\ pc' = "idle"

\* the files of the running batch that are chunked: those whose name the handler
\* does not find in the knowledge base it sees
Chunked(k) == Files[files[k]].name \notin Range(closureNames)

SomeFileFails == \E k \in DOMAIN files : Chunked(k) /\ ~FileResults[files[k]].ok

\* chunks and names of the files k.. of the running batch that are chunked and do not fail
RECURSIVE GoodChunks(_)
GoodChunks(k) ==
    IF k > Len(files) THEN <<>>
    ELSE (IF Chunked(k) /\ FileResults[files[k]].ok THEN FileResults[files[k]].chunks ELSE <<>>)
            \o GoodChunks(k + 1)

RECURSIVE GoodNames(_)
GoodNames(k) ==
    IF k > Len(files) THEN <<>>
    ELSE (IF Chunked(k) /\ FileResults[files[k]].ok THEN <<Files[files[k]].name>> ELSE <<>>)
            \o GoodNames(k + 1)

\* C2 as stated: failures are isolated within a batch.  When the handler ends,
\* previously ingested chunks are unchanged and exactly the files of the batch
\* that are chunked without failing have their chunks appended and their names
\* registered, whether or not another file of the batch failed.
C2_FailureIsolatedPerFile ==
    [][UploadEnds =>
          /\ knowledgeBase'.chunks = knowledgeBase.chunks \o GoodChunks(1)
          /\ knowledgeBase'.fileNames = knowledgeBase.fileNames \o GoodNames(1)]_vars

\* C2 amended: ingestion is all-or-nothing per batch.  When a file of the batch
\* fails chunking, the handler ends with the alert and the knowledge base exactly
\* as it was: no file of the batch is ingested.  When no file fails, every chunked
\* file has its chunks appended and its name registered.
C2_AllOrNothingPerBatch ==
    [][UploadEnds =>
          IF SomeFileFails
          THEN knowledgeBase' = knowledgeBase /\ alerts' = 1
          ELSE /\ knowledgeBase'.chunks = knowledgeBase.chunks \o GoodChunks(1)
               /\ knowledgeBase'.fileNames = knowledgeBase.fileNames \o GoodNames(1)
               /\ alerts' = 0]_vars

\* a batch failed after one of its files had been chunked, over a knowledge base
\* that held chunks, and the chunked file's name is not registered
C2_Witness ==
    /\ pc = "idle"
    /\ alerts = 1
    /\ Len(newFileNames) > 0
    /\ Len(knowledgeBase.chunks) > 0
    /\ \A k \in DOMAIN newFileNames : newFileNames[k] \notin Range(knowledgeBase.fileNames)

\* C3: a source name already present is never ingested again: the name list
\* holds each name at most once.
C3_NamesIngestedOnce ==
    \A i, j \in DOMAIN knowledgeBase.fileNames :
        i # j => knowledgeBase.fileNames[i] # knowledgeBase.fileNames[j]

\* C4: chunks leave the knowledge base only through reset.  Every step other than
\* clearKnowledgeBase keeps the chunk sequence and the name list as prefixes of the
\* new ones, and a step that loses a chunk or a name empties both together.
C4_RemovalOnlyByReset ==
    [][/\ (IsPrefix(knowledgeBase.chunks, knowledgeBase'.chunks)
             /\ IsPrefix(knowledgeBase.fileNames, knowledgeBase'.fileNames))
          \/ (clearKnowledgeBase /\ knowledgeBase'.chunks = <<>> /\ knowledgeBase'.fileNames = <<>>)
       /\ (knowledgeBase'.chunks = <<>>) /\ (knowledgeBase.chunks # <<>>)
             => knowledgeBase'.fileNames = <<>>
       /\ (knowledgeBase'.fileNames = <<>>) /\ (knowledgeBase.fileNames # <<>>)
             => knowledgeBase'.chunks = <<>>]_vars

\* the knowledge base was reset while a query was holding chunks retrieved from it
C4_Witness ==
    /\ knowledgeBase = EmptyKnowledgeBase
    /\ isLoading
    /\ Len(relevantChunks) > 0

(***************************************************************************)
(* Properties of chunkText (specification SpecChunkText)                   *)
(***************************************************************************)
CeilDiv(n, d) == (n + d - 1) \div d

RECURSIVE ConcatContents(_)
ConcatContents(chunks) ==
    IF chunks = <<>> THEN <<>> ELSE chunks[1].content \o ConcatContents(Tail(chunks))

AllSpace(s) == \A k \in DOMAIN s : IsSpace(s[k])

\* C5: for every text of length L > 0, chunkText produces ceil(L / 4000) chunks,
\* every chunk but the last has exactly 4000 characters, and the contents
\* concatenated in index order are the text.
C5_ChunkCountAndRoundTrip ==
    (ctDone /\ Len(ctText) > 0) =>
        /\ Len(ctOut) = CeilDiv(Len(ctText), CHUNK_SIZE)
        /\ \A c \in 1..(Len(ctOut) - 1) : Len(ctOut[c].content) = CHUNK_SIZE
        /\ \A c \in DOMAIN ctOut : ctOut[c].index = c - 1
        /\ ConcatContents(ctOut) = ctText

\* a text one character longer than two full chunks was cut into three chunks
C5_Witness ==
    /\ ctDone
    /\ Len(ctText) = 2 * CHUNK_SIZE + 1
    /\ Len(ctOut) = 3
    /\ Len(ctOut[3].content) = 1

NonBlankLines(text) ==
    LET lines == splitChar(text, "\n")
    IN {k \in DOMAIN lines : \E j \in DOMAIN lines[k] : ~IsSpace(lines[k][j])}

\* number of rendered rows of a chunk: its content is the header line and one
\* line per row
RowsIn(chunk) == Cardinality({k \in DOMAIN chunk.content : chunk.content[k] = "\n"})

\* C7: an input whose non-blank lines are a header and H data rows gives
\* ceil(H / 30) chunks; blank lines count toward no batch, every chunk but the
\* last holds 30 rows, and H = 0 gives zero chunks.
C7_CsvChunkCount ==
    (csvDone /\ NonBlankLines(csvText) # {}) =>
        LET H == Cardinality(NonBlankLines(csvText)) - 1
            n == Len(csvOut.chunks)
        IN /\ csvOut.ok
           /\ n = CeilDiv(H, ROWS_PER_CHUNK)
           /\ \A c \in 1..(n - 1) : RowsIn(csvOut.chunks[c]) = ROWS_PER_CHUNK
           /\ n > 0 => RowsIn(csvOut.chunks[n]) = H - (n - 1) * ROWS_PER_CHUNK
           /\ \A c \in 1..n : csvOut.chunks[c].index = c - 1

\* an input with blank lines between its 31 data rows was cut into a chunk of 30
\* rows and a chunk of one row
C7_Witness ==
    /\ csvDone
    /\ Cardinality(NonBlankLines(csvText)) = ROWS_PER_CHUNK + 2
    /\ Len(splitChar(csvText, "\n")) > ROWS_PER_CHUNK + 2
    /\ Len(csvOut.chunks) = 2
    /\ RowsIn(csvOut.chunks[2]) = 1

\* a data row as C8 renders it: one `field_name: value` pair per header field,
\* the value empty where the row has no such field
RowWithEmptyMissing(headers, row) ==
    LET values == splitChar(row, ",")
    IN join([idx \in DOMAIN headers |->
                trim(headers[idx]) \o <<":", " ">>
                    \o (IF idx <= Len(values) THEN trim(values[idx]) ELSE <<>>)],
            <<" ", "|", " ">>)

\* C8: a data row with fewer fields than the header is rendered with one pair per
\* header field, each missing trailing field with an empty value.
C8_MissingFieldsEmpty ==
    (csvDone /\ csvOut.ok) =>
        LET rows == csvRows(csvText)
            headers == splitChar(rows[1], ",")
        IN \A c \in DOMAIN csvOut.chunks :
              LET lines == splitChar(csvOut.chunks[c].content, "\n")
              IN \A r \in 1..(Len(lines) - 1) :
                    lines[r + 1] = RowWithEmptyMissing(headers,
                                                       rows[1 + (c - 1) * ROWS_PER_CHUNK + r])

(***************************************************************************)
(* Properties of findRelevantChunks (specification SpecRetrieval)          *)
(***************************************************************************)
\* C9: for a query that contains an aggregation keyword and a knowledge base of
\* fewer than 50 chunks, the result is every chunk, in collection order, whatever
\* the scores and the limit.
C9_SmallCorpusReturnsAll ==
    (rDone /\ isAggregation(rQuery) /\ Len(rChunks) < SMALL_DATASET) =>
        rOut = [k \in 1..Len(rChunks) |-> k]

\* an aggregation query over 49 chunks with limit 1 returned the 49 chunks
C9_Witness ==
    /\ rDone
    /\ isAggregation(rQuery)
    /\ Len(rChunks) = SMALL_DATASET - 1
    /\ rLimit = 1
    /\ Len(rOut) = SMALL_DATASET - 1

\* the score as C10 states it: 10 for the whole query, 1 for each query term
\* (duplicates counted) the content contains
StatedScore(query, chunk) ==
    LET lower == toLowerCase(chunk.content)
        terms == queryTerms(query)
    IN (IF includes(lower, toLowerCase(query)) THEN 10 ELSE 0)
          + Cardinality({t \in DOMAIN terms : includes(lower, terms[t])})

Scored == rDone /\ ~(isAggregation(rQuery) /\ Len(rChunks) < SMALL_DATASET)

\* C10: when chunks are scored and some chunk scores above 0, the result holds
\* only chunks of score > 0, by score descending, chunks of equal score in their
\* knowledge-base order; the score is the stated one.
C10_RankedByScoreStable ==
    (Scored /\ \E k \in DOMAIN rChunks : StatedScore(rQuery, rChunks[k]) > 0) =>
        /\ Len(rOut) > 0
        /\ \A i \in DOMAIN rOut :
              /\ rOut[i] \in DOMAIN rChunks
              /\ StatedScore(rQuery, rChunks[rOut[i]]) > 0
              /\ chunkScore(rQuery, rChunks[rOut[i]]) = StatedScore(rQuery, rChunks[rOut[i]])
        /\ \A i, j \in DOMAIN rOut :
              i < j =>
                 \/ StatedScore(rQuery, rChunks[rOut[i]]) > StatedScore(rQuery, rChunks[rOut[j]])
                 \/ /\ StatedScore(rQuery, rChunks[rOut[i]]) = StatedScore(rQuery, rChunks[rOut[j]])
                    /\ rOut[i] < rOut[j]

\* a result that leaves out a chunk, puts a later chunk before an earlier one of
\* lower score, and holds two chunks of equal score
C10_Witness ==
    /\ Scored
    /\ Len(rOut) < Len(rChunks)
    /\ \E i, j \in DOMAIN rOut :
          /\ i < j
          /\ rOut[i] > rOut[j]
          /\ StatedScore(rQuery, rChunks[rOut[i]]) > StatedScore(rQuery, rChunks[rOut[j]])
    /\ \E i, j \in DOMAIN rOut :
          /\ i < j
          /\ StatedScore(rQuery, rChunks[rOut[i]]) = StatedScore(rQuery, rChunks[rOut[j]])

SomeChunkScores == \E k \in DOMAIN rChunks : StatedScore(rQuery, rChunks[k]) > 0

\* C11 as stated: the limit bounds the output: at most limit chunks for a query
\* without aggregation intent, at most 2 * limit for an aggregation query that
\* does not take the small-corpus short-circuit.
C11_LimitBoundsOutput ==
    rDone =>
        /\ ~isAggregation(rQuery) => Len(rOut) <= rLimit
        /\ (isAggregation(rQuery) /\ Len(rChunks) >= SMALL_DATASET) => Len(rOut) <= 2 * rLimit

\* C11 amended: the limit bounds the output when some chunk scores above 0; when
\* none does, the fallback returns up to 5 chunks (20 for an aggregation query)
\* whatever the limit.
C11_LimitBoundsRankedOutput ==
    rDone =>
        /\ ~isAggregation(rQuery) =>
              Len(rOut) <= (IF SomeChunkScores THEN rLimit ELSE FALLBACK_NORMAL)
        /\ (isAggregation(rQuery) /\ Len(rChunks) >= SMALL_DATASET) =>
              Len(rOut) <= (IF SomeChunkScores THEN 2 * rLimit ELSE FALLBACK_AGG)

\* an aggregation query over 50 chunks or more, with more than 2 * limit chunks
\* scoring above 0, returned exactly 2 * limit chunks
C11_Witness ==
    /\ rDone
    /\ isAggregation(rQuery)
    /\ Len(rChunks) >= SMALL_DATASET
    /\ Cardinality({k \in DOMAIN rChunks : StatedScore(rQuery, rChunks[k]) > 0}) > 2 * rLimit
    /\ Len(rOut) = 2 * rLimit

Prefix(n) == [k \in 1..n |-> k]

\* C12 as stated: when no chunk scores above 0 over n > 0 chunks, the result is
\* the first min(n, 5) chunks without aggregation intent and the first
\* min(n, 20) with it; over no chunks the result is empty.
C12_FallbackPrefix ==
    rDone =>
        /\ (Len(rChunks) > 0 /\ ~SomeChunkScores) =>
              rOut = Prefix(Min(Len(rChunks),
                                IF isAggregation(rQuery) THEN 20 ELSE 5))
        /\ Len(rChunks) = 0 => rOut = <<>>

\* C12 amended: the same, except that an aggregation query over fewer than 50
\* chunks takes the small-corpus short-circuit before any scoring and gets all
\* n chunks, so the 20-chunk fallback applies to 50 chunks or more only.
C12_FallbackPrefixUnlessAll ==
    rDone =>
        /\ (Len(rChunks) > 0 /\ ~SomeChunkScores) =>
              rOut = Prefix(IF ~isAggregation(rQuery) THEN Min(Len(rChunks), 5)
                            ELSE IF Len(rChunks) < SMALL_DATASET THEN Len(rChunks)
                            ELSE 20)
        /\ Len(rChunks) = 0 => rOut = <<>>

\* an aggregation query that no chunk of a knowledge base of 50 chunks or more
\* matches returned the first 20 chunks
C12_Witness ==
    /\ rDone
    /\ isAggregation(rQuery)
    /\ Len(rChunks) >= SMALL_DATASET
    /\ ~SomeChunkScores
    /\ rOut = Prefix(20)

NoTerms == queryTerms(rQuery) = <<>>

\* C13 as stated: for a query whose term set is empty every chunk scores 0, and
\* over n > 0 chunks the result is the fallback, the first min(n, 5) chunks.
C13_NoTermsFallback ==
    (rDone /\ NoTerms) =>
        /\ \A k \in DOMAIN rChunks : chunkScore(rQuery, rChunks[k]) = 0
        /\ Len(rChunks) > 0 => rOut = Prefix(Min(Len(rChunks), 5))

\* C13 amended: for a query whose term set is empty a chunk scores 10 when its
\* lower-cased content contains the lower-cased query, else 0.  The chunks that
\* contain it are returned in knowledge-base order, up to limit; only when none
\* contains it is the result the fallback.  The empty string is contained in
\* every content, so the empty query returns the first min(n, limit) chunks.
C13_NoTermsPhraseOnly ==
    (rDone /\ NoTerms) =>
        LET Holds(k) == includes(toLowerCase(rChunks[k].content), toLowerCase(rQuery))
            hits == SelectSeq(Prefix(Len(rChunks)), Holds)
        IN /\ ~isAggregation(rQuery)
           /\ \A k \in DOMAIN rChunks :
                 chunkScore(rQuery, rChunks[k]) = (IF Holds(k) THEN 10 ELSE 0)
           /\ rOut = (IF hits # <<>> THEN SubSeq(hits, 1, Min(Len(hits), rLimit))
                      ELSE Prefix(Min(Len(rChunks), 5)))
           /\ rQuery = <<>> => rOut = Prefix(Min(Len(rChunks), rLimit))

\* the empty query over 10 chunks with limit 30 returned the 10 chunks
C13_Witness ==
    /\ rDone
    /\ rQuery = <<>>
    /\ Len(rChunks) = 10
    /\ rLimit = DEFAULT_LIMIT
    /\ rOut = Prefix(10)

====
